---- MODULE Spec2Model ----
(***************************************************************************)
(* The WhatsAuto webhook handler (app.post("/")) and the helpers it calls, *)
(* as a state machine.  Every await of the handler is one step: the store  *)
(* (Supabase REST) or the upstream AI API answers, and the synchronous     *)
(* code up to the next await runs in the same step.  Several requests may  *)
(* be in flight at once and interleave at their awaits.                    *)
(***************************************************************************)
EXTENDS Integers, Sequences, FiniteSets, TLC

(***************************************************************************)
(* Bounds of the model                                                     *)
(***************************************************************************)
MaxRows == 2            \* rows the store holds for one phone key
MaxConv == 2            \* conversations the upstream API hands out
MaxTicks == 2           \* number of clock advances
MaxPhoneLen == 3        \* characters of a raw phone handed to the normalization
TickMs == 40000         \* one clock advance, in milliseconds

Requests == {"r1", "r2"}    \* request slots that may be in flight together

(***************************************************************************)
(* Program constants                                                       *)
(***************************************************************************)
INACTIVITY_THRESHOLD_MS == 1 * 60 * 1000

CS == "Customer Service"
SALES == "Sales"
AGENT_IDS == {CS, SALES}        \* the keys of the static agent-id table

NullAgent == "null"             \* agent: null of createUser
NullId == 0                     \* cs_conversation_id / sales_conversation_id: null
NullTimestamp == -1             \* an absent last_activity_timestamp

WELCOME_REPLY == "Selamat datang! Silahkan pilih agent kami untuk keperluan anda. 1) Customer Service 2) Sales Team"
CREATE_FAILED_REPLY == "Terjadi kesalahan saat memproses permintaan Anda. Silahkan coba lagi nanti."
MENU_REPLY == "Silahkan pilih agent kami untuk keperluan anda. 1) Customer Service 2) Sales Team"
CS_REPLY == "Anda telah terhubung dengan Customer Service. Ketik 3, untuk memutuskan koneksi."
SALES_REPLY == "Anda telah terhubung dengan Sales Team. Ketik 3, untuk memutuskan koneksi."
DISCONNECT_REPLY == "Koneksi anda telah terputus. Silahkan pilih agent kami untuk keperluan anda. 1) Customer Service 2) Sales Team"
SYSTEM_ERROR_REPLY == "Maaf, terjadi kesalahan sistem. Silahkan coba lagi nanti."
INVALID_REPLY == "Apakah ada yang bisa kami bantu? Silahkan pilih agent kami untuk keperluan anda. 1) Customer Service 2) Sales Team"
EMPTY_PAYLOAD_REPLY == "Maaf, kami tidak dapat memproses pesan Anda saat ini."
CHAT_ERROR_REPLY == "Terjadi kesalahan saat berkomunikasi dengan agen. Silahkan coba lagi nanti."
MISSING_PHONE_ERROR == "Phone number is missing"

(***************************************************************************)
(* Inputs.  A phone or a message text is a sequence of one-character       *)
(* strings; an absent JSON field is the token Undefined.                   *)
(***************************************************************************)
Undefined == <<"undefined">>

RawPhones == { <<>>, <<"6">>, <<"+", "6">> }
Messages == { <<"1">>, <<"2">>, <<"3">>, <<"h", "i">>, Undefined }
Payloads == { "", "pong" }      \* bodies the upstream send endpoint answers with

\* What the create-conversation endpoint may answer: a 2xx response with
\* data.data.id, a 2xx response without it, or a failure (a non-2xx status
\* or no response at all, on which axios throws)
CreateResponses == { "id", "noId", "error" }

\* agent types createConversationId may be called with
AgentTypes == { CS, SALES, "Support", "" }

\* What the collaborators of one specification may do: the inputs the
\* transport delivers, and whether the store's reads, the store's writes
\* and the upstream API's calls may fail.
EnvSeq == [raws |-> RawPhones, msgs |-> Messages, fetchOutcomes |-> {TRUE},
           writeOutcomes |-> {TRUE, FALSE}, upstreamOutcomes |-> {TRUE, FALSE},
           createResponses |-> CreateResponses]
EnvFetch == [raws |-> {<<"6">>}, msgs |-> {<<"1">>, <<"h", "i">>},
            fetchOutcomes |-> {TRUE, FALSE},
            writeOutcomes |-> {TRUE, FALSE}, upstreamOutcomes |-> {TRUE},
            createResponses |-> {"id"}]
EnvLive == [raws |-> {<<"6">>}, msgs |-> {<<"1">>, <<"h", "i">>, Undefined},
           fetchOutcomes |-> {TRUE},
           writeOutcomes |-> {TRUE, FALSE}, upstreamOutcomes |-> {TRUE, FALSE},
           createResponses |-> {"id", "error"}]
EnvServer == [raws |-> {<<"6">>}, msgs |-> {<<"1">>, <<"3">>, <<"h", "i">>},
             fetchOutcomes |-> {TRUE},
             writeOutcomes |-> {TRUE, FALSE}, upstreamOutcomes |-> {TRUE},
             createResponses |-> {"id", "error"}]
EnvConc == [raws |-> {<<"6">>, <<"+", "6">>},
            msgs |-> {<<" ", "1">>, <<"h", "i">>},
            fetchOutcomes |-> {TRUE},
            writeOutcomes |-> {TRUE}, upstreamOutcomes |-> {TRUE},
            createResponses |-> {"id"}]

(***************************************************************************)
(* rawPhone.replace(/[\s+-]/g, "")                                         *)
(***************************************************************************)
\* a variant that removes the signs and keeps the whitespace
StrippedChars_signsOnly == {"+", "-"}

StrippedChars == {" ", "\t", "+", "-"}      \* [\s+-]

RECURSIVE NormalizePhone(_)
NormalizePhone(raw) ==
    IF raw = <<>> THEN <<>>
    ELSE IF Head(raw) \in StrippedChars THEN NormalizePhone(Tail(raw))
         ELSE <<Head(raw)>> \o NormalizePhone(Tail(raw))

\* raw phones of a second user, with and without a character that ends the
\* query of a URL, and raw phones made of separators only
OtherRawPhones == { <<"2">>, <<"2", "#">>, <<"+">>, <<"-", " ">> }

\* the phone keys the store may be asked for
Keys == { NormalizePhone(p) : p \in (RawPhones \cup OtherRawPhones) \ {<<>>} }

(***************************************************************************)
(* String.prototype.trim                                                   *)
(***************************************************************************)
RECURSIVE TrimLeft(_)
TrimLeft(s) ==
    IF s # <<>> /\ Head(s) = " " THEN TrimLeft(Tail(s)) ELSE s

RECURSIVE TrimRight(_)
TrimRight(s) ==
    IF s # <<>> /\ s[Len(s)] = " " THEN TrimRight(SubSeq(s, 1, Len(s) - 1)) ELSE s

Trim(s) == TrimRight(TrimLeft(s))

(***************************************************************************)
(* isUserInactive, with the clock reading passed in                        *)
(***************************************************************************)
\* a variant that counts the boundary as inactive
isUserInactive_atThreshold(lastActivityTimestamp, clock) ==
    IF lastActivityTimestamp = NullTimestamp THEN TRUE
    ELSE (clock - lastActivityTimestamp) >= INACTIVITY_THRESHOLD_MS

isUserInactive(lastActivityTimestamp, clock) ==
    IF lastActivityTimestamp = NullTimestamp THEN TRUE
    ELSE (clock - lastActivityTimestamp) > INACTIVITY_THRESHOLD_MS

(***************************************************************************)
(* State                                                                   *)
(***************************************************************************)
VARIABLES
    store,      \* store[k]: the rows of conversation_states whose phone is k
    convs,      \* upstream conversations: convs[h] = [agent, phone, lastUse] of handle h
    now,        \* the wall clock, in milliseconds
    req         \* req[r]: the position and locals of the request in slot r

vars == <<store, convs, now, req>>

NoData == [phone |-> <<>>, last_message |-> <<>>, state |-> "none", agent |-> NullAgent,
           cs_conversation_id |-> NullId, sales_conversation_id |-> NullId,
           last_activity_timestamp |-> NullTimestamp]

IdleReq == [pc |-> "idle", rawPhone |-> <<>>, phone |-> <<>>, message |-> <<>>,
            exists |-> FALSE, userData |-> NoData, userInactive |-> FALSE,
            stamp |-> NullTimestamp, conversationId |-> NullId,
            status |-> 0, reply |-> "", choice |-> "", error |-> "",
            \* what the request has done so far
            present |-> FALSE, fetchedAt |-> NullTimestamp, fetchError |-> FALSE,
            priorTimestamp |-> NullTimestamp,
            created |-> FALSE,
            creates |-> 0, sentOn |-> NullId, sendOk |-> FALSE, payload |-> "",
            response |-> "", idleAtFetch |-> 0,
            \* outcome of each store write: "no" (not issued), "ok", "failed"
            wroteMessage |-> "no", wroteAgent |-> "no", wroteConv |-> "no",
            wroteTs |-> "no"]

Init ==
    /\ store = [k \in Keys |-> <<>>]
    /\ convs = <<>>
    /\ now = 0
    /\ req = [r \in Requests |-> IdleReq]

InFlight(r) == req[r].pc \notin {"idle", "done", "crashed"}

(***************************************************************************)
(* The store: conversation_states behind the REST interface.  A PATCH      *)
(* with the filter phone=eq.k changes the supplied fields of every row of  *)
(* k; a GET returns the rows of k and the caller takes one of them.        *)
(***************************************************************************)
ApplyPatch(row, payload) ==
    [f \in DOMAIN row |-> IF f \in DOMAIN payload THEN payload[f] ELSE row[f]]

\* `...conversation_states?phone=eq.${phone}`: the phone goes into the URL
\* as it is, so the value the store filters on ends where the query of the
\* URL ends, at the first "#"
RECURSIVE FilterKey(_)
FilterKey(phone) ==
    IF phone = <<>> \/ Head(phone) = "#" THEN <<>>
    ELSE <<Head(phone)>> \o FilterKey(Tail(phone))

\* the rows a GET or PATCH of that URL selects
Matching(phone) == store[FilterKey(phone)]

PatchRows(k, payload) ==
    [store EXCEPT ![FilterKey(k)] = [i \in 1..Len(@) |-> ApplyPatch(@[i], payload)]]

\* a variant that takes the slot of the other agent type
fieldName_swapped(agentType) ==
    IF agentType = CS THEN "sales_conversation_id" ELSE "cs_conversation_id"

fieldName(agentType) ==
    IF agentType = CS THEN "cs_conversation_id" ELSE "sales_conversation_id"

Outcome(ok) == IF ok THEN "ok" ELSE "failed"

Respond(q, code, replyMessage, choiceValue) ==
    [q EXCEPT !.pc = "done", !.status = code, !.reply = replyMessage,
              !.choice = choiceValue]

(***************************************************************************)
(* app.post("/"): entry, up to the first await                             *)
(***************************************************************************)
\* a variant that answers the missing phone like every other request
MissingPhoneResponse_status200 ==
    [IdleReq EXCEPT !.pc = "done", !.status = 200, !.error = MISSING_PHONE_ERROR]

\* res.status(400).json({ error: "Phone number is missing" })
MissingPhoneResponse ==
    [IdleReq EXCEPT !.pc = "done", !.status = 400, !.error = MISSING_PHONE_ERROR]

Receive(r, E) ==
    /\ ~InFlight(r)
    /\ \E raw \in E.raws, m \in E.msgs :
          LET phone == NormalizePhone(raw) IN
          req' = [req EXCEPT ![r] =
                    IF raw = <<>>
                    THEN MissingPhoneResponse
                    ELSE [IdleReq EXCEPT !.pc = "checkUserExists",
                                         !.phone = phone, !.message = m,
                                         !.present = Len(store[phone]) > 0]]
    /\ UNCHANGED <<store, convs, now>>

(***************************************************************************)
(* checkUserExists returns; the handler computes userInactive from the     *)
(* fetched row and issues createUser or updateUserMessage                  *)
(***************************************************************************)
AfterCheck(q, found, data) ==
    IF ~found
    THEN [q EXCEPT !.pc = "createUser", !.exists = FALSE, !.userData = NoData,
                   !.fetchedAt = now, !.stamp = now]
    ELSE [q EXCEPT !.pc = "updateUserMessage", !.exists = TRUE, !.userData = data,
                   !.fetchedAt = now,
                   !.userInactive = isUserInactive(data.last_activity_timestamp, now)]

\* a variant that answers a failed fetch with an error status
AfterFetchError_surfaced(q) ==
    Respond([q EXCEPT !.fetchError = TRUE, !.fetchedAt = now], 500,
            CREATE_FAILED_REPLY, "")

\* the catch block of checkUserExists: { exists: false, data: null, error: true }
AfterFetchError(q) == AfterCheck([q EXCEPT !.fetchError = TRUE], FALSE, NoData)

CheckUserExists(r, E) ==
    /\ req[r].pc = "checkUserExists"
    /\ \E ok \in E.fetchOutcomes :
          IF ~ok
          THEN req' = [req EXCEPT ![r] = AfterFetchError(@)]
          ELSE IF Len(Matching(req[r].phone)) > 0
          THEN \E i \in 1..Len(Matching(req[r].phone)) :
                  req' = [req EXCEPT ![r] = AfterCheck(@, TRUE, Matching(req[r].phone)[i])]
          ELSE req' = [req EXCEPT ![r] = AfterCheck(@, FALSE, NoData)]
    /\ UNCHANGED <<store, convs, now>>

(***************************************************************************)
(* createUser returns; the handler responds                                *)
(***************************************************************************)
\* a variant that creates the row in the state of a returning user
NewRow_selecting(phone, last_message, stamp) ==
    [phone |-> phone,
     last_message |-> IF last_message = Undefined THEN <<>> ELSE last_message,
     state |-> "selecting", agent |-> NullAgent,
     cs_conversation_id |-> NullId, sales_conversation_id |-> NullId,
     last_activity_timestamp |-> stamp]

NewRow(phone, last_message, stamp) ==
    [phone |-> phone,
     last_message |-> IF last_message = Undefined THEN <<>> ELSE last_message,
     state |-> "initial", agent |-> NullAgent,
     cs_conversation_id |-> NullId, sales_conversation_id |-> NullId,
     last_activity_timestamp |-> stamp]

CreateUser(r, E) ==
    /\ req[r].pc = "createUser"
    /\ \E ok \in E.writeOutcomes :
          IF ok /\ Len(store[req[r].phone]) < MaxRows
          THEN /\ store' = [store EXCEPT ![req[r].phone] =
                              Append(@, NewRow(req[r].phone, req[r].message, req[r].stamp))]
               /\ req' = [req EXCEPT ![r] =
                            Respond([@ EXCEPT !.created = TRUE], 200, WELCOME_REPLY, "")]
          ELSE /\ req' = [req EXCEPT ![r] = Respond(@, 200, CREATE_FAILED_REPLY, "")]
               /\ UNCHANGED store
    /\ UNCHANGED <<convs, now>>

(***************************************************************************)
(* handleAgentSelection up to its first await (or to its return)           *)
(***************************************************************************)
\* a variant that takes the empty agent of a disconnection for a binding
IsBound_emptyCounts(agent) == agent # NullAgent

\* if (currentAgent): null and "" are both falsy
IsBound(agent) == agent \notin {NullAgent, ""}

\* a variant with the choice of the first revision of the handler
DisconnectChoice_named == "DISCONNECT"

DisconnectChoice == ""          \* case "3": empty string for disconnection

\* a variant that takes the text of the selection for the agent
SelectedAgent_asTyped(text) ==
    IF text = <<"3">> THEN DisconnectChoice ELSE text[1]

\* the choice of case "1", "2" and "3", which updateUserAgent then stores
SelectedAgent(text) ==
    IF text = <<"1">> THEN CS
    ELSE IF text = <<"2">> THEN SALES
    ELSE DisconnectChoice

\* a variant that leaves choice at its default
AfterCreateFailed_noChoice(q) == Respond(q, 200, SYSTEM_ERROR_REPLY, "")

AfterCreateFailed(q) == Respond(q, 200, SYSTEM_ERROR_REPLY, q.userData.agent)

\* a variant that takes the decision from the record as it is now
forceNewConversation_reread(q) ==
    isUserInactive(store[q.phone][1].last_activity_timestamp, now)

forceNewConversation(q) == q.userInactive

\* a variant that ignores the forced flag
NeedsNewConversation_noForce(q) ==
    q.userData[fieldName(q.userData.agent)] = NullId

NeedsNewConversation(q) ==
    \/ q.userData[fieldName(q.userData.agent)] = NullId
    \/ forceNewConversation(q)

handleAgentSelection(q) ==
    LET currentAgent == q.userData.agent
        currentState == q.userData.state
    IN
    IF currentState # "selecting" THEN Respond(q, 200, MENU_REPLY, "")
    ELSE IF q.message = Undefined THEN [q EXCEPT !.pc = "crashed"]
    ELSE IF Trim(q.message) = <<"1">>
         THEN [q EXCEPT !.pc = "updateUserAgent", !.choice = SelectedAgent(<<"1">>),
                        !.reply = CS_REPLY]
    ELSE IF Trim(q.message) = <<"2">>
         THEN [q EXCEPT !.pc = "updateUserAgent", !.choice = SelectedAgent(<<"2">>),
                        !.reply = SALES_REPLY]
    ELSE IF Trim(q.message) = <<"3">>
         THEN [q EXCEPT !.pc = "updateUserAgent", !.choice = SelectedAgent(<<"3">>),
                        !.reply = DISCONNECT_REPLY]
    ELSE IF IsBound(currentAgent)
         THEN IF NeedsNewConversation(q)
              THEN [q EXCEPT !.pc = "createConversationId"]
              ELSE [q EXCEPT !.pc = "chatWithAgent",
                             !.conversationId = q.userData[fieldName(currentAgent)]]
    ELSE Respond(q, 200, INVALID_REPLY, "INVALID")

(***************************************************************************)
(* updateUserMessage returns; handleAgentSelection starts                  *)
(***************************************************************************)
\* a variant that refreshes the timestamp with every message
MessagePayload_withTimestamp(last_message) ==
    IF last_message = Undefined
    THEN [state |-> "selecting", last_activity_timestamp |-> now]
    ELSE [state |-> "selecting", last_message |-> last_message,
          last_activity_timestamp |-> now]

MessagePayload(last_message) ==
    IF last_message = Undefined
    THEN [state |-> "selecting"]
    ELSE [state |-> "selecting", last_message |-> last_message]

UpdateUserMessage(r, E) ==
    /\ req[r].pc = "updateUserMessage"
    /\ \E ok \in E.writeOutcomes :
          /\ store' = IF ok THEN PatchRows(req[r].phone, MessagePayload(req[r].message))
                      ELSE store
          /\ req' = [req EXCEPT ![r] =
                       handleAgentSelection([@ EXCEPT !.wroteMessage = Outcome(ok)])]
    /\ UNCHANGED <<convs, now>>

(***************************************************************************)
(* createConversationId returns inside getOrCreateConversationId: the      *)
(* upstream API answers with data.data.id, or it fails or answers without  *)
(* the nested id                                                           *)
(***************************************************************************)
\* a variant that takes every 2xx response for a success
createConversationId_statusOnly(agentType, response, newId) ==
    IF agentType \notin AGENT_IDS THEN [id |-> NullId, posted |-> FALSE]
    ELSE IF response \in {"id", "noId"} THEN [id |-> newId, posted |-> TRUE]
    ELSE [id |-> NullId, posted |-> TRUE]

\* createConversationId(agentType): the id it returns (NullId for null) and
\* whether it posted to the upstream API, given what the API answers
createConversationId(agentType, response, newId) ==
    IF agentType \notin AGENT_IDS THEN [id |-> NullId, posted |-> FALSE]
    ELSE IF response = "id" THEN [id |-> newId, posted |-> TRUE]
    ELSE [id |-> NullId, posted |-> TRUE]

\* what the API answers: it hands out MaxConv conversations at most
Answer(response) == IF Len(convs) < MaxConv THEN response ELSE "error"

\* getOrCreateConversationId got a new id: updateConversationId is issued
AfterCreated(q, id) ==
    [q EXCEPT !.pc = "updateConversationId", !.conversationId = id, !.stamp = now]

CreateConversationId(r, E) ==
    /\ req[r].pc = "createConversationId"
    /\ \E resp \in E.createResponses :
          LET res == createConversationId(req[r].userData.agent, Answer(resp),
                                          Len(convs) + 1)
              called == [req[r] EXCEPT
                            !.creates = IF res.posted THEN @ + 1 ELSE @,
                            !.response = IF res.posted THEN Answer(resp) ELSE ""]
          IN
          IF res.id # NullId
          THEN /\ convs' = Append(convs, [agent |-> req[r].userData.agent,
                                          phone |-> req[r].phone,
                                          lastUse |-> now])
               /\ req' = [req EXCEPT ![r] = AfterCreated(called, res.id)]
          ELSE /\ req' = [req EXCEPT ![r] = AfterCreateFailed(called)]
               /\ UNCHANGED convs
    /\ UNCHANGED <<store, now>>

(***************************************************************************)
(* createConversationId called on its own, with any agent type             *)
(***************************************************************************)
DirectCreate(r) ==
    /\ \E agentType \in AgentTypes, resp \in CreateResponses :
          LET res == createConversationId(agentType, Answer(resp), Len(convs) + 1) IN
          /\ convs' = IF res.id # NullId
                      THEN Append(convs, [agent |-> agentType, phone |-> <<>>,
                                          lastUse |-> now])
                      ELSE convs
          /\ req' = [req EXCEPT ![r] =
                       [IdleReq EXCEPT
                           !.pc = "done",
                           !.userData = [NoData EXCEPT !.agent = agentType],
                           !.conversationId = res.id,
                           !.creates = IF res.posted THEN 1 ELSE 0,
                           !.response = IF res.posted THEN Answer(resp) ELSE ""]]
    /\ UNCHANGED <<store, now>>

(***************************************************************************)
(* updateConversationId returns; chatWithAgent is issued                   *)
(***************************************************************************)
\* a variant that forgets the handle of the other agent type
ConversationPayload_clearOther(agentType, conversationId, stamp) ==
    [cs_conversation_id |-> IF agentType = CS THEN conversationId ELSE NullId,
     sales_conversation_id |-> IF agentType = CS THEN NullId ELSE conversationId,
     last_activity_timestamp |-> stamp]

\* { [fieldName]: conversationId, last_activity_timestamp }
ConversationPayload(agentType, conversationId, stamp) ==
    (fieldName(agentType) :> conversationId) @@ ("last_activity_timestamp" :> stamp)

UpdateConversationId(r, E) ==
    /\ req[r].pc = "updateConversationId"
    /\ \E ok \in E.writeOutcomes :
          /\ store' = IF ok THEN PatchRows(req[r].phone,
                                    ConversationPayload(req[r].userData.agent,
                                                        req[r].conversationId,
                                                        req[r].stamp))
                      ELSE store
          /\ req' = [req EXCEPT ![r] = [@ EXCEPT !.pc = "chatWithAgent", !.wroteConv = Outcome(ok)]]
    /\ UNCHANGED <<convs, now>>

(***************************************************************************)
(* chatWithAgent returns; updateLastActivityTimestamp is issued            *)
(***************************************************************************)
\* a variant that hands every payload on as it is
ChatReply_verbatim(payload) == payload

\* response.data || "Maaf, kami tidak dapat memproses pesan Anda saat ini."
ChatReply(payload) == IF payload = "" THEN EMPTY_PAYLOAD_REPLY ELSE payload

\* a variant that hands the error of the failed call to the user
ChatResult_rawError(ok, payload) ==
    IF ok THEN ChatReply(payload) ELSE "Request failed with status code 500"

\* what chatWithAgent returns as reply: from the response, or from its catch block
ChatResult(ok, payload) == IF ok THEN ChatReply(payload) ELSE CHAT_ERROR_REPLY

\* a variant that refreshes the timestamp only after a successful send
AfterChat_skipOnFailure(q, ok, replyMessage) ==
    LET sent == [q EXCEPT !.reply = replyMessage, !.choice = q.userData.agent,
                          !.sentOn = q.conversationId, !.sendOk = ok,
                          !.idleAtFetch = q.fetchedAt - convs[q.conversationId].lastUse,
                          !.stamp = now]
    IN IF ok THEN [sent EXCEPT !.pc = "updateLastActivityTimestamp"]
       ELSE [sent EXCEPT !.pc = "done", !.status = 200]

AfterChat(q, ok, replyMessage) ==
    [q EXCEPT !.pc = "updateLastActivityTimestamp", !.reply = replyMessage,
              !.choice = q.userData.agent, !.sentOn = q.conversationId,
              !.sendOk = ok,
              !.idleAtFetch = q.fetchedAt - convs[q.conversationId].lastUse,
              !.stamp = now]

ChatWithAgent(r, E) ==
    /\ req[r].pc = "chatWithAgent"
    /\ \E ok \in E.upstreamOutcomes, p \in Payloads :
          req' = [req EXCEPT ![r] =
                    AfterChat([@ EXCEPT !.payload = IF ok THEN p ELSE ""],
                              ok, ChatResult(ok, p))]
    /\ convs' = [convs EXCEPT ![req[r].conversationId].lastUse = now]
    /\ UNCHANGED <<store, now>>

(***************************************************************************)
(* updateUserAgent returns; updateLastActivityTimestamp is issued          *)
(***************************************************************************)
\* a variant in which a disconnection takes the record back to its first state
AgentPayload_resetState(agent) ==
    [agent |-> agent, state |-> IF agent = "" THEN "initial" ELSE "selecting"]

AgentPayload(agent) == [agent |-> agent]

UpdateUserAgent(r, E) ==
    /\ req[r].pc = "updateUserAgent"
    /\ \E ok \in E.writeOutcomes :
          /\ store' = IF ok THEN PatchRows(req[r].phone, AgentPayload(req[r].choice))
                      ELSE store
          /\ req' = [req EXCEPT ![r] =
                       [@ EXCEPT !.pc = "updateLastActivityTimestamp",
                                 !.wroteAgent = Outcome(ok), !.stamp = now]]
    /\ UNCHANGED <<convs, now>>

(***************************************************************************)
(* updateLastActivityTimestamp returns; handleAgentSelection returns and   *)
(* the handler responds                                                    *)
(***************************************************************************)
\* a variant that forgets the handles whenever the timestamp is refreshed
TimestampPayload_dropHandles(stamp) ==
    [last_activity_timestamp |-> stamp,
     cs_conversation_id |-> NullId, sales_conversation_id |-> NullId]

\* { last_activity_timestamp: new Date().toISOString() }
TimestampPayload(stamp) == [last_activity_timestamp |-> stamp]

UpdateLastActivityTimestamp(r, E) ==
    /\ req[r].pc = "updateLastActivityTimestamp"
    /\ \E ok \in E.writeOutcomes :
          /\ store' = IF ok THEN PatchRows(req[r].phone, TimestampPayload(req[r].stamp))
                      ELSE store
          /\ req' = [req EXCEPT ![r] =
                       Respond([@ EXCEPT !.wroteTs = Outcome(ok)], 200, @.reply, @.choice)]
    /\ UNCHANGED <<convs, now>>

(***************************************************************************)
(* The clock                                                               *)
(***************************************************************************)
Tick ==
    /\ now + TickMs <= MaxTicks * TickMs
    /\ now' = now + TickMs
    /\ UNCHANGED <<store, convs, req>>

Step(r, E) ==
    \/ Receive(r, E)
    \/ CheckUserExists(r, E)
    \/ CreateUser(r, E)
    \/ UpdateUserMessage(r, E)
    \/ CreateConversationId(r, E)
    \/ UpdateConversationId(r, E)
    \/ ChatWithAgent(r, E)
    \/ UpdateUserAgent(r, E)
    \/ UpdateLastActivityTimestamp(r, E)

(***************************************************************************)
(* Spec: the requests of one user arrive one after the other; the store's  *)
(* writes and the upstream calls may fail, its reads do not.               *)
(***************************************************************************)
Next == Step("r1", EnvSeq) \/ Tick

Spec == Init /\ [][Next]_vars

(***************************************************************************)
(* SpecConc: two requests in flight at once, interleaving at their awaits, *)
(* within one reading of the clock and with reliable collaborators.        *)
(***************************************************************************)
NextConc == \E r \in Requests : Step(r, EnvConc)

SpecConc == Init /\ [][NextConc]_vars

(***************************************************************************)
(* SpecFetch: the requests of one user arrive one after the other, within  *)
(* one reading of the clock; the store's reads may fail as well as its     *)
(* writes.                                                                 *)
(***************************************************************************)
NextFetch == Step("r1", EnvFetch)

SpecFetch == Init /\ [][NextFetch]_vars

(***************************************************************************)
(* The last webhook definition of src/server.js.  It differs from the      *)
(* handler above in the branch of an existing user: updateUserState writes *)
(* the timestamp together with the message and the state, the record is    *)
(* fetched again, getOrCreateConversationId computes the inactivity from   *)
(* that second copy, and updateUserAgent writes the timestamp itself.      *)
(***************************************************************************)
StatePayload(last_message, stamp) ==
    IF last_message = Undefined
    THEN [state |-> "selecting", last_activity_timestamp |-> stamp]
    ELSE [state |-> "selecting", last_message |-> last_message,
          last_activity_timestamp |-> stamp]

UpdateUserState(r, E) ==
    /\ req[r].pc = "updateUserMessage"
    /\ \E ok \in E.writeOutcomes :
          /\ store' = IF ok THEN PatchRows(req[r].phone,
                                    StatePayload(req[r].message, req[r].fetchedAt))
                      ELSE store
          /\ req' = [req EXCEPT ![r] =
                       [@ EXCEPT !.pc = "recheckUserExists",
                                 !.wroteMessage = Outcome(ok),
                                 !.priorTimestamp = req[r].userData.last_activity_timestamp]]
    /\ UNCHANGED <<convs, now>>

\* handleAgentSelection of that revision: the handler reads result.reply of
\* the undefined it returns for a state other than selecting, and a menu
\* selection ends with updateUserAgent
handleAgentSelectionServer(q) ==
    IF q.userData.state # "selecting" THEN [q EXCEPT !.pc = "crashed"]
    ELSE LET next == handleAgentSelection(q) IN
         IF next.pc = "updateUserAgent"
         THEN [next EXCEPT !.pc = "updateUserAgentServer"]
         ELSE next

RecheckUserExists(r, E) ==
    /\ req[r].pc = "recheckUserExists"
    /\ \E ok \in E.fetchOutcomes :
          IF ok /\ Len(Matching(req[r].phone)) > 0
          THEN \E i \in 1..Len(Matching(req[r].phone)) :
                  LET row == Matching(req[r].phone)[i] IN
                  req' = [req EXCEPT ![r] =
                            handleAgentSelectionServer(
                               [@ EXCEPT !.userData = row,
                                         !.userInactive =
                                            isUserInactive(row.last_activity_timestamp, now),
                                         !.stamp = now])]
          ELSE req' = [req EXCEPT ![r].pc = "crashed"]
    /\ UNCHANGED <<store, convs, now>>

UpdateUserAgentServer(r, E) ==
    /\ req[r].pc = "updateUserAgentServer"
    /\ \E ok \in E.writeOutcomes :
          /\ store' = IF ok THEN PatchRows(req[r].phone,
                                    [agent |-> req[r].choice,
                                     last_activity_timestamp |-> req[r].stamp])
                      ELSE store
          /\ req' = [req EXCEPT ![r] =
                       Respond([@ EXCEPT !.wroteAgent = Outcome(ok)], 200,
                               req[r].reply, req[r].choice)]
    /\ UNCHANGED <<convs, now>>

StepServer(r, E) ==
    \/ Receive(r, E)
    \/ CheckUserExists(r, E)
    \/ CreateUser(r, E)
    \/ UpdateUserState(r, E)
    \/ RecheckUserExists(r, E)
    \/ CreateConversationId(r, E)
    \/ UpdateConversationId(r, E)
    \/ ChatWithAgent(r, E)
    \/ UpdateUserAgentServer(r, E)
    \/ UpdateLastActivityTimestamp(r, E)

(***************************************************************************)
(* SpecServer: the requests of one user arrive one after the other at the  *)
(* handler of src/server.js, while the clock advances.                     *)
(***************************************************************************)
NextServer == StepServer("r1", EnvServer) \/ Tick

SpecServer == Init /\ [][NextServer]_vars

(***************************************************************************)
(* SpecLive: the requests of one user arrive one after the other; every    *)
(* call to the store and to the upstream API that is in flight eventually  *)
(* returns, with success or with failure.  No request has to arrive.       *)
(***************************************************************************)
Return(r, E) ==
    \/ CheckUserExists(r, E)
    \/ CreateUser(r, E)
    \/ UpdateUserMessage(r, E)
    \/ CreateConversationId(r, E)
    \/ UpdateConversationId(r, E)
    \/ ChatWithAgent(r, E)
    \/ UpdateUserAgent(r, E)
    \/ UpdateLastActivityTimestamp(r, E)

NextLive == Receive("r1", EnvLive) \/ Return("r1", EnvLive)

SpecLive == Init /\ [][NextLive]_vars /\ WF_vars(Return("r1", EnvLive))

(***************************************************************************)
(* SpecInactive: isUserInactive is called again and again, while the clock *)
(* advances, with no timestamp and with timestamps that lie at, just       *)
(* before and just after the clock reading and the threshold before it.    *)
(***************************************************************************)
Offsets == { -1, 0, 1 }

TimestampsAt(clock) ==
    {NullTimestamp} \cup
    { t \in { clock - base - d : base \in {0, INACTIVITY_THRESHOLD_MS}, d \in Offsets } :
         t >= 0 }

DirectInactive(r) ==
    /\ \E ts \in TimestampsAt(now) :
          req' = [req EXCEPT ![r] =
                    [IdleReq EXCEPT
                        !.pc = "done",
                        !.userData = [NoData EXCEPT !.last_activity_timestamp = ts],
                        !.fetchedAt = now,
                        !.userInactive = isUserInactive(ts, now)]]
    /\ UNCHANGED <<store, convs, now>>

NextInactive == (\E r \in Requests : DirectInactive(r)) \/ Tick

SpecInactive == Init /\ [][NextInactive]_vars

(***************************************************************************)
(* SpecNormalize: the normalization of the handler is applied to every raw *)
(* phone of MaxPhoneLen characters at most over digits, signs and          *)
(* whitespace.                                                             *)
(***************************************************************************)
PhoneChars == {"6", "2", "+", "-", " ", "\t"}

RawStrings == UNION { [1..n -> PhoneChars] : n \in 1..MaxPhoneLen }

DirectNormalize(r) ==
    /\ \E raw \in RawStrings :
          req' = [req EXCEPT ![r] =
                    [IdleReq EXCEPT !.pc = "done", !.rawPhone = raw,
                                    !.phone = NormalizePhone(raw)]]
    /\ UNCHANGED <<store, convs, now>>

NextNormalize == DirectNormalize("r1")

SpecNormalize == Init /\ [][NextNormalize]_vars

(***************************************************************************)
(* SpecCreate: createConversationId is called again and again, with every  *)
(* agent type and every answer of the upstream API.                        *)
(***************************************************************************)
NextCreate == \E r \in Requests : DirectCreate(r)

SpecCreate == Init /\ [][NextCreate]_vars

(***************************************************************************)
(* Vocabulary of the properties                                            *)
(***************************************************************************)
MenuTexts == { <<"1">>, <<"2">>, <<"3">> }

IsText(q) == q.message # Undefined /\ Trim(q.message) \notin MenuTexts
IsMenu(q) == q.message # Undefined /\ Trim(q.message) \in MenuTexts

\* the handle the fetched row holds for the agent bound in it
SlotOf(q) == q.userData[fieldName(q.userData.agent)]

\* a request of an existing user, bound to an agent, carrying non-menu text
Routed(q) == q.exists /\ IsBound(q.userData.agent) /\ IsText(q)

\* the inactivity of the fetched row at the time of the fetch
InactiveAtFetch(q) == isUserInactive(q.userData.last_activity_timestamp, q.fetchedAt)

Rows(k) == { store[k][i] : i \in 1..Len(store[k]) }

(***************************************************************************)
(* C1: for an existing user bound to an agent and a non-menu text, exactly *)
(* one createConversation call is made, before the send, if and only if    *)
(* the row was inactive at the fetch or the bound agent's slot is empty;   *)
(* otherwise no createConversation call is made and the send goes out on   *)
(* the stored handle.                                                      *)
(***************************************************************************)
C1_CreateIffInactiveOrNoHandle ==
    \A r \in Requests :
       LET q == req[r]
           need == SlotOf(q) = NullId \/ InactiveAtFetch(q)
       IN
       Routed(q) =>
          /\ q.pc \in {"createConversationId", "updateConversationId"} =>
                need /\ q.sentOn = NullId
          /\ q.pc \in {"chatWithAgent", "updateLastActivityTimestamp", "done"} =>
                IF need
                THEN /\ q.creates = 1
                     /\ q.conversationId # NullId => q.conversationId # SlotOf(q)
                     /\ q.sentOn # NullId => q.sentOn = q.conversationId
                ELSE /\ q.creates = 0
                     /\ q.conversationId = SlotOf(q)
                     /\ q.sentOn # NullId => q.sentOn = SlotOf(q)

\* an inactive user with a stored handle got a new conversation and the send
\* went out on it
C1_Witness ==
    \E r \in Requests :
       LET q == req[r] IN
       /\ Routed(q) /\ q.pc = "done"
       /\ SlotOf(q) # NullId /\ InactiveAtFetch(q)
       /\ q.creates = 1 /\ q.sentOn \notin {NullId, SlotOf(q)}

(***************************************************************************)
(* C2: the inactivity decision a request routes on is the inactivity of    *)
(* the row it fetched, taken at the fetch, when the request had issued no  *)
(* write yet; it stays that value for the rest of the request.             *)
(***************************************************************************)
C2_InactivityFromPreRequestTimestamp ==
    \A r \in Requests :
       LET q == req[r] IN
       q.exists =>
          /\ forceNewConversation(q) = InactiveAtFetch(q)
          /\ q.pc = "updateUserMessage" =>
                /\ q.wroteMessage = "no" /\ q.wroteAgent = "no"
                /\ q.wroteConv = "no" /\ q.wroteTs = "no"

\* a request found its row inactive, then wrote a fresh timestamp itself and
\* still created the new conversation
C2_Witness ==
    \E r \in Requests :
       LET q == req[r] IN
       /\ Routed(q) /\ q.pc = "done" /\ SlotOf(q) # NullId
       /\ q.userInactive /\ q.wroteConv = "ok" /\ q.wroteTs = "ok"
       /\ \A row \in Rows(q.phone) :
             ~isUserInactive(row.last_activity_timestamp, now)

(***************************************************************************)
(* C3: a stored handle is never reused for a send when more than the       *)
(* inactivity threshold had elapsed, at the request's fetch, since the     *)
(* handle was created or last used for a send.                             *)
(***************************************************************************)
C3_NoStaleHandleReuse ==
    \A r \in Requests :
       LET q == req[r] IN
       (q.sentOn # NullId /\ q.creates = 0) =>
          q.idleAtFetch <= INACTIVITY_THRESHOLD_MS

(***************************************************************************)
(* What a menu selection is to answer and to store                         *)
(***************************************************************************)
ExpectedChoice(q) ==
    CASE Trim(q.message) = <<"1">> -> CS
      [] Trim(q.message) = <<"2">> -> SALES
      [] OTHER -> ""

ExpectedReply(q) ==
    CASE Trim(q.message) = <<"1">> -> CS_REPLY
      [] Trim(q.message) = <<"2">> -> SALES_REPLY
      [] OTHER -> DISCONNECT_REPLY

AgentPersisted(q) ==
    \A row \in Rows(q.phone) :
       IF ExpectedChoice(q) = "" THEN ~IsBound(row.agent)
       ELSE row.agent = ExpectedChoice(q)

C5_MenuHonouredFromInitial ==
    \A r \in Requests :
       LET q == req[r] IN
       (q.pc = "done" /\ q.exists /\ q.userData.state = "initial" /\ IsMenu(q)) =>
          /\ q.choice = ExpectedChoice(q)
          /\ q.reply = ExpectedReply(q)
          /\ q.wroteAgent # "no"

(***************************************************************************)
(* The record a first message leaves                                       *)
(***************************************************************************)
IsInitialRow(row) ==
    /\ row.state = "initial" /\ ~IsBound(row.agent)
    /\ row.cs_conversation_id = NullId /\ row.sales_conversation_id = NullId

NoRouting(q) ==
    /\ q.wroteMessage = "no" /\ q.wroteAgent = "no" /\ q.wroteConv = "no"
    /\ q.wroteTs = "no" /\ q.creates = 0 /\ q.sentOn = NullId

(***************************************************************************)
(* C6, as claimed: for a key without a record, every message is answered   *)
(* with exists=false, the welcome+menu reply and an empty choice, a record *)
(* in state initial without agent and handles is stored, and no routing    *)
(* is done.                                                                *)
(***************************************************************************)
C6_NewKeyWelcome ==
    \A r \in Requests :
       LET q == req[r] IN
       (q.pc = "done" /\ q.status = 200 /\ ~q.present) =>
          /\ ~q.exists /\ q.reply = WELCOME_REPLY /\ q.choice = ""
          /\ Rows(q.phone) # {}
          /\ \A row \in Rows(q.phone) : IsInitialRow(row)
          /\ NoRouting(q)

(***************************************************************************)
(* C6, amended: exists=false, the empty choice and the absence of routing  *)
(* hold in every case; the welcome reply and the stored initial record     *)
(* hold when the store accepts the create, and otherwise the reply is the  *)
(* generic apology and no record is stored.                                *)
(***************************************************************************)
C6_NewKeyWelcomeWhenCreated ==
    \A r \in Requests :
       LET q == req[r] IN
       (q.pc = "done" /\ q.status = 200 /\ ~q.present) =>
          /\ ~q.exists /\ q.choice = "" /\ NoRouting(q)
          /\ IF q.created
             THEN /\ q.reply = WELCOME_REPLY
                  /\ Rows(q.phone) # {}
                  /\ \A row \in Rows(q.phone) :
                        IsInitialRow(row) /\ row.phone = q.phone
             ELSE /\ q.reply = CREATE_FAILED_REPLY
                  /\ Rows(q.phone) = {}

\* a first message "1" was answered with the welcome text and bound nothing
C6_Witness ==
    \E r \in Requests :
       LET q == req[r] IN
       /\ q.pc = "done" /\ ~q.present /\ q.created /\ q.message = <<"1">>
       /\ q.reply = WELCOME_REPLY /\ q.choice = ""
       /\ \A row \in Rows(q.phone) : IsInitialRow(row)

C8_TimestampFrame ==
    [][ \A k \in Keys : \A i \in 1..Len(store[k]) :
           store'[k][i].last_activity_timestamp # store[k][i].last_activity_timestamp =>
              \E r \in Requests :
                 /\ req[r].phone = k
                 /\ req[r].pc \in {"updateConversationId", "updateLastActivityTimestamp"}
                 /\ req'[r].pc # req[r].pc
                 /\ IsMenu(req[r]) \/ Routed(req[r]) ]_vars

\* an unbound user came back after the threshold with a text: the message was
\* stored and the timestamp is still the old one
C8_Witness ==
    \E r \in Requests :
       LET q == req[r] IN
       /\ q.pc = "done" /\ q.exists /\ q.userData.state = "selecting"
       /\ ~IsBound(q.userData.agent) /\ IsText(q) /\ q.userInactive
       /\ q.wroteMessage = "ok" /\ q.choice = "INVALID"
       /\ \A row \in Rows(q.phone) :
             /\ row.last_message = q.message
             /\ row.last_activity_timestamp = q.userData.last_activity_timestamp

(***************************************************************************)
(* C9: when the request needs a new conversation and createConversation    *)
(* fails, the reply is the system-error string, choice is the bound agent, *)
(* no send is attempted, no conversation-id write is issued, and the       *)
(* record keeps its agent and both handles.                                *)
(***************************************************************************)
C9_CreateFailure ==
    \A r \in Requests :
       LET q == req[r] IN
       (q.pc = "done" /\ Routed(q) /\ q.creates > 0 /\ q.conversationId = NullId) =>
          /\ q.status = 200 /\ q.reply = SYSTEM_ERROR_REPLY
          /\ q.choice = q.userData.agent
          /\ q.sentOn = NullId
          /\ q.wroteConv = "no" /\ q.wroteAgent = "no"
          /\ \A row \in Rows(q.phone) :
                /\ row.agent = q.userData.agent
                /\ row.cs_conversation_id = q.userData.cs_conversation_id
                /\ row.sales_conversation_id = q.userData.sales_conversation_id

\* the creation failed for an inactive user whose stale handle stays stored
C9_Witness ==
    \E r \in Requests :
       LET q == req[r] IN
       /\ q.pc = "done" /\ Routed(q) /\ q.creates = 1 /\ q.conversationId = NullId
       /\ SlotOf(q) # NullId /\ q.userInactive
       /\ q.reply = SYSTEM_ERROR_REPLY /\ q.choice = q.userData.agent
       /\ \A row \in Rows(q.phone) : row[fieldName(row.agent)] = SlotOf(q)

(***************************************************************************)
(* C10: under every interleaving of requests the store holds exactly one   *)
(* row per phone key that has been answered, never more.                   *)
(***************************************************************************)
C10_OneRecordPerKey ==
    \A k \in Keys :
       /\ Len(store[k]) <= 1
       /\ (\E r \in Requests : req[r].pc = "done" /\ req[r].phone = k) =>
             Len(store[k]) = 1

(***************************************************************************)
(* The routing actions of a request: the agent write, the creation of a    *)
(* conversation and the send                                               *)
(***************************************************************************)
RoutingStarted(q) ==
    \/ q.pc \in {"updateUserAgent", "createConversationId", "updateConversationId",
                 "chatWithAgent", "updateLastActivityTimestamp"}
    \/ q.wroteAgent # "no" \/ q.wroteConv # "no" \/ q.wroteTs # "no"
    \/ q.creates > 0 \/ q.sentOn # NullId

(***************************************************************************)
(* C11: in every request of an existing user the write of last_message and *)
(* state=selecting has been issued before any routing action (agent write, *)
(* conversation creation, send) starts, and no step takes a row whose      *)
(* state is selecting to another state.                                    *)
(***************************************************************************)
C11_MessageWriteFirstStateMonotonic ==
    /\ [](\A r \in Requests :
            LET q == req[r] IN
            /\ (q.exists /\ RoutingStarted(q)) => q.wroteMessage # "no"
            /\ (q.exists /\ q.pc = "updateUserMessage") =>
                  q.wroteMessage = "no" /\ ~RoutingStarted(q))
    /\ [][ \A k \in Keys : \A i \in 1..Len(store[k]) :
              /\ Len(store'[k]) >= Len(store[k])
              /\ store[k][i].state = "selecting" => store'[k][i].state = "selecting" ]_vars

\* a user bound to an agent disconnected: the message was stored first and
\* the row is still in state selecting, now without agent
C11_Witness ==
    \E r \in Requests :
       LET q == req[r] IN
       /\ q.pc = "done" /\ q.exists /\ Trim(q.message) = <<"3">>
       /\ IsBound(q.userData.agent)
       /\ q.wroteMessage = "ok" /\ q.wroteAgent = "ok"
       /\ \A row \in Rows(q.phone) :
             row.state = "selecting" /\ row.agent = "" /\ row.last_message = q.message

(***************************************************************************)
(* C12: no exception escapes the handler, and every request it has         *)
(* finished was answered with status 200 and a reply, except the request   *)
(* without phone, which alone is answered with another status.             *)
(***************************************************************************)
C12_AlwaysAnswered ==
    \A r \in Requests :
       LET q == req[r] IN
       /\ q.pc # "crashed"
       /\ q.pc = "done" =>
             \/ q.status = 200 /\ q.reply # "" /\ q.error = ""
             \/ q.status = 400 /\ q.error = MISSING_PHONE_ERROR /\ q.fetchedAt = NullTimestamp

(***************************************************************************)
(* C13: a request without phone, or with an empty one, is answered with    *)
(* status 400 and the error "Phone number is missing"; it makes no store   *)
(* call and no upstream call, and the step that answers it leaves every    *)
(* record and every conversation as it was.                                *)
(***************************************************************************)
C13_MissingPhoneRejected ==
    /\ [](\A r \in Requests :
            LET q == req[r] IN
            (q.pc # "idle" /\ q.phone = <<>>) =>
               /\ q.pc = "done" /\ q.status = 400 /\ q.error = MISSING_PHONE_ERROR
               /\ q.reply = "" /\ q.fetchedAt = NullTimestamp /\ ~q.created
               /\ NoRouting(q))
    /\ [][ \A r \in Requests :
              (req'[r] # req[r] /\ req'[r].phone = <<>>) =>
                 /\ ~InFlight(r)
                 /\ store' = store /\ convs' = convs ]_vars

\* a request without phone was rejected while the store held a record
C13_Witness ==
    \E r \in Requests :
       LET q == req[r] IN
       /\ q.pc = "done" /\ q.phone = <<>> /\ q.status = 400
       /\ q.error = MISSING_PHONE_ERROR
       /\ \E k \in Keys : \E row \in Rows(k) : row.state = "selecting"

(***************************************************************************)
(* C14: in every response, exists is true if and only if the store held a  *)
(* record of the normalized phone when the request started, whether the    *)
(* fetch succeeded or failed.                                              *)
(***************************************************************************)
C14_ExistsIffPresent ==
    \A r \in Requests :
       LET q == req[r] IN
       (q.pc = "done" /\ q.status = 200) => (q.exists <=> q.present)

(***************************************************************************)
(* C18: a request whose fetch failed continues as the request of a key     *)
(* without record does: it attempts the create and nothing else; and a     *)
(* request whose create failed is answered with status 200, the generic    *)
(* apology and an empty choice, having done no routing.                    *)
(***************************************************************************)
C18_FetchFailureAsNotFound ==
    /\ [](\A r \in Requests :
            LET q == req[r] IN
            /\ q.fetchError =>
                  /\ q.pc \in {"createUser", "done"}
                  /\ ~q.exists /\ q.userData = NoData /\ q.choice = "" /\ NoRouting(q)
                  /\ q.pc = "done" =>
                        /\ q.status = 200
                        /\ q.reply = IF q.created THEN WELCOME_REPLY
                                     ELSE CREATE_FAILED_REPLY
            /\ (q.pc = "done" /\ q.status = 200 /\ ~q.exists /\ ~q.created) =>
                  /\ q.reply = CREATE_FAILED_REPLY /\ q.choice = ""
                  /\ NoRouting(q))
    /\ [][ \A r \in Requests :
              (req[r].pc = "checkUserExists" /\ req'[r].fetchError) =>
                 /\ [req'[r] EXCEPT !.fetchError = FALSE] = AfterCheck(req[r], FALSE, NoData)
                 /\ store' = store /\ convs' = convs ]_vars

\* the fetch of an existing user's record failed, then the create failed:
\* the user got the apology and the record is as it was
C18_Witness ==
    \E r \in Requests :
       LET q == req[r] IN
       /\ q.pc = "done" /\ q.fetchError /\ q.present /\ ~q.created
       /\ q.status = 200 /\ q.reply = CREATE_FAILED_REPLY /\ q.choice = ""
       /\ Len(store[q.phone]) = 1
       /\ \A row \in Rows(q.phone) : row.state = "selecting" /\ row.agent = CS

(***************************************************************************)
(* C15: a user fetched in state selecting without agent (null or empty)    *)
(* who sends a text other than "1", "2", "3" is answered with the          *)
(* menu-prompt reply and choice "INVALID"; the record stays without agent  *)
(* and in state selecting, and no upstream call is made.                   *)
(***************************************************************************)
C15_UnboundTextPromptsMenu ==
    \A r \in Requests :
       LET q == req[r] IN
       (/\ q.exists /\ q.userData.state = "selecting"
        /\ q.userData.agent \in {NullAgent, ""} /\ IsText(q)
        /\ q.pc # "updateUserMessage") =>
          /\ q.pc = "done" /\ q.status = 200
          /\ q.reply = INVALID_REPLY /\ q.choice = "INVALID"
          /\ q.creates = 0 /\ q.sentOn = NullId
          /\ q.wroteAgent = "no" /\ q.wroteConv = "no" /\ q.wroteTs = "no"
          /\ \A row \in Rows(q.phone) :
                row.agent = q.userData.agent /\ row.state = "selecting"

\* a user who had disconnected (agent "") sent a text and got the prompt
C15_Witness ==
    \E r \in Requests :
       LET q == req[r] IN
       /\ q.pc = "done" /\ q.exists /\ q.userData.state = "selecting"
       /\ q.userData.agent = "" /\ q.message = <<"h", "i">>
       /\ q.reply = INVALID_REPLY /\ q.choice = "INVALID"
       /\ \A row \in Rows(q.phone) : row.agent = "" /\ row.state = "selecting"

(***************************************************************************)
(* C16: when the send to the bound agent fails, the reply is the fixed     *)
(* apology of chatWithAgent, choice is the bound agent, the request is     *)
(* answered with status 200 and no error, and the agent of the record is   *)
(* not changed.                                                            *)
(***************************************************************************)
C16_SendFailureApology ==
    \A r \in Requests :
       LET q == req[r] IN
       (q.sentOn # NullId /\ ~q.sendOk) =>
          /\ q.reply = CHAT_ERROR_REPLY
          /\ q.choice = q.userData.agent /\ q.choice \in AGENT_IDS
          /\ q.error = "" /\ q.wroteAgent = "no"
          /\ q.pc \in {"updateLastActivityTimestamp", "done"}
          /\ q.pc = "done" => q.status = 200
          /\ \A row \in Rows(q.phone) : row.agent = q.userData.agent

\* the send on a newly created conversation failed
C16_Witness ==
    \E r \in Requests :
       LET q == req[r] IN
       /\ q.pc = "done" /\ q.status = 200 /\ q.sentOn # NullId /\ ~q.sendOk
       /\ q.creates = 1 /\ q.userData.agent = SALES
       /\ q.reply = CHAT_ERROR_REPLY /\ q.choice = SALES
       /\ \A row \in Rows(q.phone) : row.agent = SALES

(***************************************************************************)
(* C17, as claimed: when a text is routed to the bound agent and the send  *)
(* succeeds, the reply is the payload of the upstream response, whatever   *)
(* it is (the empty payload included), choice is the bound agent, and the  *)
(* record keeps its agent and its state selecting.                         *)
(***************************************************************************)
C17_ReplyIsPayload ==
    \A r \in Requests :
       LET q == req[r] IN
       (q.sentOn # NullId /\ q.sendOk) =>
          /\ q.reply = q.payload
          /\ q.choice = q.userData.agent
          /\ \A row \in Rows(q.phone) :
                row.agent = q.userData.agent /\ row.state = "selecting"

(***************************************************************************)
(* C17, amended: the reply is the payload of the upstream response when    *)
(* that payload is not empty, and the fixed fallback text when it is       *)
(* empty; choice is the bound agent, and the record keeps its agent and    *)
(* its state selecting.                                                    *)
(***************************************************************************)
C17_ReplyIsPayloadOrFallback ==
    \A r \in Requests :
       LET q == req[r] IN
       (q.sentOn # NullId /\ q.sendOk) =>
          /\ q.reply = IF q.payload = "" THEN EMPTY_PAYLOAD_REPLY ELSE q.payload
          /\ q.choice = q.userData.agent /\ q.choice \in AGENT_IDS
          /\ q.wroteAgent = "no"
          /\ q.pc \in {"updateLastActivityTimestamp", "done"}
          /\ q.pc = "done" => q.status = 200
          /\ \A row \in Rows(q.phone) :
                row.agent = q.userData.agent /\ row.state = "selecting"

\* the upstream API answered the text with an empty body
C17_Witness ==
    \E r \in Requests :
       LET q == req[r] IN
       /\ q.pc = "done" /\ q.sentOn # NullId /\ q.sendOk /\ q.payload = ""
       /\ q.reply = EMPTY_PAYLOAD_REPLY /\ q.choice = CS
       /\ \A row \in Rows(q.phone) : row.agent = CS /\ row.state = "selecting"

(***************************************************************************)
(* C19: when a store update of an existing user's request fails (the       *)
(* message/state update, the agent update, the conversation-id update or   *)
(* the timestamp update), the reply is a generic apology; and a            *)
(* connected-to-agent reply is given only when the record holds the agent  *)
(* it announces.                                                           *)
(***************************************************************************)
ApologyReplies == { CREATE_FAILED_REPLY, SYSTEM_ERROR_REPLY }

C19_FailedUpdateApology ==
    \A r \in Requests :
       LET q == req[r] IN
       (q.pc = "done" /\ q.exists) =>
          /\ "failed" \in {q.wroteMessage, q.wroteAgent, q.wroteConv, q.wroteTs} =>
                q.reply \in ApologyReplies
          /\ q.reply \in {CS_REPLY, SALES_REPLY} =>
                \A row \in Rows(q.phone) : row.agent = q.choice

(***************************************************************************)
(* C20: createConversationId returns a handle only when the agent type is  *)
(* one of the two known ones and the upstream API answered with a success  *)
(* carrying the nested id; for another agent type it returns none and      *)
(* makes no upstream call; for a failure and for a success without the     *)
(* nested id it returns none.                                              *)
(***************************************************************************)
C20_HandleOnlyFromKnownAgentAndNestedId ==
    \A r \in Requests :
       LET q == req[r] IN
       q.pc = "done" =>
          /\ q.conversationId # NullId <=>
                (q.userData.agent \in AGENT_IDS /\ q.response = "id")
          /\ q.userData.agent \notin AGENT_IDS => q.creates = 0 /\ q.response = ""
          /\ q.userData.agent \in AGENT_IDS => q.creates = 1
          /\ q.conversationId # NullId =>
                /\ q.conversationId \in 1..Len(convs)
                /\ convs[q.conversationId].agent = q.userData.agent

\* the API answered a call for Sales with a 2xx response without the nested
\* id, and a call for an agent type outside the table was not sent at all
C20_Witness ==
    /\ req["r1"].pc = "done" /\ req["r1"].userData.agent = SALES
    /\ req["r1"].response = "noId" /\ req["r1"].conversationId = NullId
    /\ req["r2"].pc = "done" /\ req["r2"].userData.agent = "Support"
    /\ req["r2"].creates = 0 /\ req["r2"].conversationId = NullId
    /\ Len(convs) < MaxConv

(***************************************************************************)
(* C21: in every reachable state the conversation-id slot of an agent type *)
(* is non-null only if a createConversation call for that agent type       *)
(* succeeded before for that user, and it holds the handle such a call     *)
(* returned; a handle created for one agent type is never in the slot of   *)
(* the other.                                                              *)
(***************************************************************************)
HandleOf(id, agentType, k) ==
    /\ id \in 1..Len(convs)
    /\ convs[id].agent = agentType /\ convs[id].phone = k

C21_SlotProvenance ==
    \A k \in Keys : \A row \in Rows(k) :
       /\ row.cs_conversation_id # NullId => HandleOf(row.cs_conversation_id, CS, k)
       /\ row.sales_conversation_id # NullId =>
             HandleOf(row.sales_conversation_id, SALES, k)

\* a user has talked to both agents: each slot holds the handle of its type
C21_Witness ==
    \E k \in Keys : \E row \in Rows(k) :
       /\ row.cs_conversation_id # NullId /\ row.sales_conversation_id # NullId
       /\ convs[row.cs_conversation_id].agent = CS
       /\ convs[row.sales_conversation_id].agent = SALES

(***************************************************************************)
(* C22: in every reachable state the agent of every record is none (null   *)
(* or empty), "Customer Service" or "Sales", and the records of one user   *)
(* bind one agent at most.                                                 *)
(***************************************************************************)
BoundAgents(k) == { row.agent : row \in Rows(k) } \ {NullAgent, ""}

C22_AgentDomain ==
    \A k \in Keys :
       /\ \A row \in Rows(k) : row.agent \in {NullAgent, "", CS, SALES}
       /\ Cardinality(BoundAgents(k)) <= 1

\* a user bound to Customer Service selected Sales: Sales alone is bound
C22_Witness ==
    \E r \in Requests :
       LET q == req[r] IN
       /\ q.pc = "done" /\ q.exists /\ q.userData.agent = CS
       /\ Trim(q.message) = <<"2">> /\ q.wroteAgent = "ok"
       /\ BoundAgents(q.phone) = {SALES}

(***************************************************************************)
(* C23: the two conversation-id slots are independent: a step changes the  *)
(* slot of an agent type only as the conversation-id update of a request   *)
(* bound to that agent type, and it leaves the slot of the other agent     *)
(* type as it was.                                                         *)
(***************************************************************************)
SlotWriter(k, agentType) ==
    \E r \in Requests :
       /\ req[r].pc = "updateConversationId" /\ req'[r].pc # req[r].pc
       /\ req[r].phone = k /\ req[r].userData.agent = agentType

C23_SlotsIndependent ==
    [][ \A k \in Keys : \A i \in 1..Len(store[k]) :
           /\ store'[k][i].cs_conversation_id # store[k][i].cs_conversation_id =>
                 /\ store'[k][i].sales_conversation_id = store[k][i].sales_conversation_id
                 /\ SlotWriter(k, CS)
           /\ store'[k][i].sales_conversation_id # store[k][i].sales_conversation_id =>
                 /\ store'[k][i].cs_conversation_id = store[k][i].cs_conversation_id
                 /\ SlotWriter(k, SALES) ]_vars

\* a user holding a Sales handle got a Customer Service handle: the Sales
\* slot is as the request found it
C23_Witness ==
    \E r \in Requests :
       LET q == req[r] IN
       /\ q.pc = "done" /\ Routed(q) /\ q.userData.agent = CS
       /\ q.userData.sales_conversation_id # NullId
       /\ q.creates = 1 /\ q.wroteConv = "ok"
       /\ \A row \in Rows(q.phone) :
             /\ row.cs_conversation_id = q.conversationId
             /\ row.cs_conversation_id # q.userData.cs_conversation_id
             /\ row.sales_conversation_id = q.userData.sales_conversation_id

(***************************************************************************)
(* The order of the external steps of one request: a pair <<a, b>> says    *)
(* that the call b is issued, or the request ends in b, when the call a    *)
(* has returned.                                                           *)
(***************************************************************************)
Ended == {"idle", "done", "crashed"}

StepOrder ==
    { <<"checkUserExists", "createUser">>, <<"checkUserExists", "updateUserMessage">>,
      <<"createUser", "done">>,
      <<"updateUserMessage", "done">>, <<"updateUserMessage", "crashed">>,
      <<"updateUserMessage", "updateUserAgent">>,
      <<"updateUserMessage", "createConversationId">>,
      <<"updateUserMessage", "chatWithAgent">>,
      <<"createConversationId", "updateConversationId">>,
      <<"createConversationId", "done">>,
      <<"updateConversationId", "chatWithAgent">>,
      <<"chatWithAgent", "updateLastActivityTimestamp">>,
      <<"updateUserAgent", "updateLastActivityTimestamp">>,
      <<"updateLastActivityTimestamp", "done">> }

InOrder ==
    \A r \in Requests :
       req'[r].pc # req[r].pc =>
          \/ req[r].pc \in Ended /\ req'[r].pc \in {"checkUserExists", "done"}
          \/ <<req[r].pc, req'[r].pc>> \in StepOrder

\* the store and the upstream API are touched only by a call in flight
OnlyInFlight ==
    (\A r \in Requests : ~InFlight(r)) => (store' = store /\ convs' = convs)

(***************************************************************************)
(* C24: within one request the external steps happen in the    *)
(* order fetch, create or message/state update, routing decision, upstream *)
(* conversation create and persisting of its handle, send, timestamp       *)
(* update, response, each after the previous one has returned; a new       *)
(* handle is in the record before the first message is sent on it, and the *)
(* response comes after all writes of the request.                         *)
(***************************************************************************)
C24_StepsInOrderHandlePersisted ==
    /\ [][InOrder /\ OnlyInFlight]_vars
    /\ [](\A r \in Requests :
            LET q == req[r] IN
            (q.pc = "chatWithAgent" /\ q.creates > 0) =>
               \A row \in Rows(q.phone) :
                  row[fieldName(q.userData.agent)] = q.conversationId)

(***************************************************************************)
(* What holds of the order in every run: the steps happen in that order,   *)
(* each after the previous one has returned, and the response comes after  *)
(* all writes; the write of a new handle has returned before the first     *)
(* message is sent on it, and the handle is in the record then when the    *)
(* store accepted the write.                                               *)
(***************************************************************************)
StepsInOrder ==
    /\ [][InOrder /\ OnlyInFlight]_vars
    /\ [](\A r \in Requests :
            LET q == req[r] IN
            /\ (q.pc = "chatWithAgent" /\ q.creates > 0) =>
                  /\ q.wroteConv # "no" /\ q.sentOn = NullId
                  /\ q.wroteConv = "ok" =>
                        \A row \in Rows(q.phone) :
                           row[fieldName(q.userData.agent)] = q.conversationId
            /\ q.pc \in {"createConversationId", "updateConversationId"} =>
                  q.sentOn = NullId /\ q.wroteTs = "no"
            /\ q.wroteTs # "no" => q.pc = "done")

\* a request went through every step: a new handle was stored, the message
\* was sent on it, the timestamp was written and the response was given
StepsInOrder_Witness ==
    \E r \in Requests :
       LET q == req[r] IN
       /\ q.pc = "done" /\ q.status = 200 /\ q.exists
       /\ q.wroteMessage = "ok" /\ q.creates = 1 /\ q.wroteConv = "ok"
       /\ q.sentOn = q.conversationId /\ q.sendOk /\ q.wroteTs = "ok"
       /\ \A row \in Rows(q.phone) :
             row[fieldName(q.userData.agent)] = q.sentOn

(***************************************************************************)
(* C25: every accepted request eventually gets its response, whatever its  *)
(* message (an absent one included) and whatever the record, provided      *)
(* every call to the store and to the upstream API returns.                *)
(***************************************************************************)
C25_EveryRequestAnswered ==
    \A r \in Requests :
       (req[r].pc = "checkUserExists") ~> (req[r].pc = "done" /\ req[r].status = 200)

(***************************************************************************)
(* C26: isUserInactive is true for an absent timestamp; otherwise it is    *)
(* true exactly when the time elapsed since the timestamp is strictly      *)
(* greater than the threshold: false below the threshold and false when    *)
(* the elapsed time equals the threshold.                                  *)
(***************************************************************************)
C26_InactiveStrictlyAfterThreshold ==
    \A r \in Requests :
       LET q == req[r]
           ts == q.userData.last_activity_timestamp
           elapsed == q.fetchedAt - ts
       IN
       q.pc = "done" =>
          /\ ts = NullTimestamp => q.userInactive
          /\ (ts # NullTimestamp /\ elapsed < INACTIVITY_THRESHOLD_MS) => ~q.userInactive
          /\ (ts # NullTimestamp /\ elapsed = INACTIVITY_THRESHOLD_MS) => ~q.userInactive
          /\ (ts # NullTimestamp /\ elapsed > INACTIVITY_THRESHOLD_MS) => q.userInactive

\* one call at the boundary and one a millisecond past it
C26_Witness ==
    /\ req["r1"].pc = "done" /\ req["r1"].userData.last_activity_timestamp # NullTimestamp
    /\ req["r1"].fetchedAt - req["r1"].userData.last_activity_timestamp
          = INACTIVITY_THRESHOLD_MS
    /\ ~req["r1"].userInactive
    /\ req["r2"].pc = "done" /\ req["r2"].userData.last_activity_timestamp # NullTimestamp
    /\ req["r2"].fetchedAt - req["r2"].userData.last_activity_timestamp
          = INACTIVITY_THRESHOLD_MS + 1
    /\ req["r2"].userInactive

(***************************************************************************)
(* C27: the normalization removes every whitespace, "+" and "-" character  *)
(* and no other, keeps the other characters in their order, and is         *)
(* idempotent; two raw phones that differ only in those characters have    *)
(* the same key.                                                           *)
(***************************************************************************)
Separators == {" ", "\t", "+", "-"}

IsKept(c) == c \notin Separators

C27_NormalizeStripsSeparators ==
    \A r \in Requests :
       LET q == req[r] IN
       q.rawPhone # <<>> =>
          /\ q.phone = SelectSeq(q.rawPhone, IsKept)
          /\ \A i \in 1..Len(q.phone) : q.phone[i] \notin Separators
          /\ NormalizePhone(q.phone) = q.phone
          /\ \A other \in RawStrings :
                SelectSeq(other, IsKept) = SelectSeq(q.rawPhone, IsKept) =>
                   NormalizePhone(other) = q.phone

\* two digits with a separator in between: the digits stay, in their order
C27_Witness ==
    \E r \in Requests :
       /\ req[r].pc = "done" /\ Len(req[r].rawPhone) = 3
       /\ req[r].rawPhone[1] = "2" /\ req[r].rawPhone[2] \in Separators
       /\ req[r].rawPhone[3] = "6"
       /\ req[r].phone = <<"2", "6">>

(***************************************************************************)
(* C28: in the handler of src/server.js, too, the inactivity a request     *)
(* routes on is that of the timestamp the record held before the request   *)
(* wrote anything: a bound user with a stored handle who comes back after  *)
(* more than the threshold gets a new conversation, not the stored handle. *)
(***************************************************************************)
C28_ServerInactivityFromPriorTimestamp ==
    \A r \in Requests :
       LET q == req[r] IN
       (/\ q.pc = "recheckUserExists" \/ q.wroteMessage # "no"
        /\ isUserInactive(q.priorTimestamp, q.fetchedAt)
        /\ q.sentOn # NullId) =>
          q.creates = 1 /\ q.sentOn = Len(convs)

(***************************************************************************)
(* C29: a message is sent on the handle that the slot of the bound agent   *)
(* holds at the moment of the send, and when the request is completed the  *)
(* slot still holds the handle the message was sent on, also when the      *)
(* write of a newly created handle failed.                                 *)
(***************************************************************************)
C29_SentOnStoredHandle ==
    \A r \in Requests :
       LET q == req[r] IN
       (q.sentOn # NullId /\ q.pc \in {"updateLastActivityTimestamp", "done"}) =>
          \A row \in Rows(q.phone) :
             row[fieldName(q.userData.agent)] = q.sentOn

(***************************************************************************)
(* C30: under every interleaving of requests of one user carrying text,    *)
(* within the inactivity threshold, createConversation succeeds once at    *)
(* most for the agent the user is bound to, the messages are sent on that  *)
(* one handle, and a handle that received a message is not replaced in the *)
(* slot by another one.                                                    *)
(***************************************************************************)
HandlesOf(k, agentType) ==
    { h \in 1..Len(convs) : convs[h].phone = k /\ convs[h].agent = agentType }

C30_OneConversationUnderInterleaving ==
    /\ \A k \in Keys : \A a \in AGENT_IDS : Cardinality(HandlesOf(k, a)) <= 1
    /\ \A r \in Requests : \A t \in Requests :
          (/\ req[r].sentOn # NullId /\ req[t].sentOn # NullId
           /\ req[r].phone = req[t].phone
           /\ req[r].userData.agent = req[t].userData.agent) =>
             req[r].sentOn = req[t].sentOn
    /\ \A r \in Requests :
          (req[r].sentOn # NullId /\ (\A t \in Requests : ~InFlight(t))) =>
             \A row \in Rows(req[r].phone) :
                row[fieldName(req[r].userData.agent)] = req[r].sentOn

(***************************************************************************)
(* SpecDisconnect: two requests of one user in flight at once, one of      *)
(* which may be a disconnection, within one reading of the clock and with  *)
(* reliable collaborators.                                                 *)
(***************************************************************************)
EnvDisconnect == [raws |-> {<<"6">>},
                  msgs |-> {<<"1">>, <<"3">>, <<"h", "i">>},
                  fetchOutcomes |-> {TRUE},
                  writeOutcomes |-> {TRUE}, upstreamOutcomes |-> {TRUE},
                  createResponses |-> {"id"}]

NextDisconnect == \E r \in Requests : Step(r, EnvDisconnect)

SpecDisconnect == Init /\ [][NextDisconnect]_vars

(***************************************************************************)
(* C31: under every interleaving of the requests of one user, the choice   *)
(* of a response that carries an agent's reply is the agent of the user's  *)
(* record at the time the response is emitted; so after a disconnection    *)
(* was answered no message is answered by an agent until a later           *)
(* selection.                                                              *)
(***************************************************************************)
Emits(r) == req[r].pc # "done" /\ req'[r].pc = "done"

\* a disconnection of the user of k was answered and is what the record holds
DisconnectAnswered(k) ==
    /\ Len(store[k]) = 1
    /\ store[k][1].agent = DisconnectChoice
    /\ \E t \in Requests :
          /\ req[t].pc = "done" /\ req[t].phone = k
          /\ req[t].message # Undefined /\ Trim(req[t].message) = <<"3">>
          /\ req[t].wroteAgent = "ok"

C31_RoutedChoiceIsRecordAgent ==
    [][\A r \in Requests :
          (Emits(r) /\ req'[r].sentOn # NullId /\ DisconnectAnswered(req[r].phone)) =>
             store'[req'[r].phone][1].agent = req'[r].choice]_vars

(***************************************************************************)
(* C32: a request carrying a menu selection makes no upstream call and     *)
(* leaves both conversation-id slots of every row as they are, a           *)
(* disconnection included; a text that follows within the threshold, the   *)
(* user being bound to an agent whose slot holds a handle, is sent on that *)
(* handle without a new conversation.                                      *)
(***************************************************************************)
SlotsOf(row) == <<row.cs_conversation_id, row.sales_conversation_id>>

MenuStep(r) == InFlight(r) /\ IsMenu(req[r]) /\ req'[r] # req[r]

C32_MenuSelectionKeepsHandles ==
    /\ [][\A r \in Requests :
             MenuStep(r) =>
                /\ convs' = convs
                /\ req'[r].creates = 0 /\ req'[r].sentOn = NullId
                /\ \A i \in 1..Len(store[req[r].phone]) :
                      SlotsOf(store'[req[r].phone][i]) = SlotsOf(store[req[r].phone][i])]_vars
    /\ [](\A r \in Requests :
             LET q == req[r] IN
             (/\ Routed(q) /\ ~q.userInactive /\ SlotOf(q) # NullId
              /\ q.pc \in {"updateLastActivityTimestamp", "done"}) =>
                q.sentOn = SlotOf(q) /\ q.creates = 0)

\* a disconnection was stored and answered, and the handle is still in the slot
C32_Witness ==
    \E r \in Requests :
       LET q == req[r] IN
       /\ q.pc = "done" /\ q.message = <<"3">> /\ q.wroteAgent = "ok"
       /\ q.wroteTs = "ok"
       /\ \E row \in Rows(q.phone) :
             row.agent = DisconnectChoice /\ row.cs_conversation_id # NullId

(***************************************************************************)
(* C33: a request whose conversation creation fails changes last_message   *)
(* and state of the record only: last_activity_timestamp, agent and both   *)
(* conversation-id slots are those the request fetched, so the record      *)
(* still asks for a new conversation when the next text is handled.        *)
(***************************************************************************)
CreateFailed(q) ==
    q.pc = "done" /\ Routed(q) /\ q.creates > 0 /\ q.conversationId = NullId

\* the decision of getOrCreateConversationId for a request fetching row at clock
WouldCreate(row, clock) ==
    \/ row[fieldName(row.agent)] = NullId
    \/ isUserInactive(row.last_activity_timestamp, clock)

C33_CreateFailureFrame ==
    \A r \in Requests :
       LET q == req[r] IN
       CreateFailed(q) =>
          \A row \in Rows(q.phone) :
             /\ row.last_activity_timestamp = q.userData.last_activity_timestamp
             /\ row.agent = q.userData.agent
             /\ SlotsOf(row) = SlotsOf(q.userData)
             /\ row.phone = q.userData.phone
             /\ row.last_message \in {q.message, q.userData.last_message}
             /\ row.state = "selecting"
             /\ WouldCreate(row, now)

\* the creation failed for a user whose handle is stale, and the message
\* was stored over a different one
C33_Witness ==
    \E r \in Requests :
       LET q == req[r] IN
       /\ CreateFailed(q) /\ q.wroteMessage = "ok" /\ SlotOf(q) # NullId
       /\ \E row \in Rows(q.phone) :
             /\ row.last_message = q.message
             /\ row.last_message # q.userData.last_message
             /\ row.last_activity_timestamp = q.userData.last_activity_timestamp

(***************************************************************************)
(* SpecEmptyKey: the requests arrive one after the other with reliable     *)
(* collaborators; the phone may be absent or made of separators only.      *)
(***************************************************************************)
EnvEmptyKey == [raws |-> {<<>>, <<"+">>, <<"-", " ">>, <<"6">>},
                msgs |-> {<<"1">>, <<"h", "i">>},
                fetchOutcomes |-> {TRUE},
                writeOutcomes |-> {TRUE}, upstreamOutcomes |-> {TRUE},
                createResponses |-> {"id"}]

NextEmptyKey == Step("r1", EnvEmptyKey)

SpecEmptyKey == Init /\ [][NextEmptyKey]_vars

(***************************************************************************)
(* C34: no request that passes the missing-phone check fetches, creates or *)
(* updates with an empty normalized key, and no record has an empty phone. *)
(***************************************************************************)
C34_NoEmptyKey ==
    /\ \A r \in Requests : InFlight(r) => req[r].phone # <<>>
    /\ \A k \in Keys : \A row \in Rows(k) : row.phone # <<>>

(***************************************************************************)
(* SpecKeys: the requests of two phone keys, each key with a request slot  *)
(* of its own, in flight at once within one reading of the clock and with  *)
(* reliable collaborators.                                                 *)
(***************************************************************************)
EnvKeyA == [raws |-> {<<"2">>},
            msgs |-> {<<"1">>, <<"h", "i">>},
            fetchOutcomes |-> {TRUE},
            writeOutcomes |-> {TRUE}, upstreamOutcomes |-> {TRUE},
            createResponses |-> {"id"}]

EnvKeyB == [EnvKeyA EXCEPT !.raws = {<<"2", "#">>}]

NextKeys == Step("r1", EnvKeyA) \/ Step("r2", EnvKeyB)

SpecKeys == Init /\ [][NextKeys]_vars

(***************************************************************************)
(* C35: under every interleaving, a step of a request for key A leaves the *)
(* rows of every other key as they are, and the row the request decides    *)
(* and answers from is a row of key A.                                     *)
(***************************************************************************)
StepOf(r) == InFlight(r) /\ req'[r] # req[r]

C35_KeyIsolation ==
    /\ [][\A r \in Requests :
             StepOf(r) => \A k \in Keys \ {req[r].phone} : store'[k] = store[k]]_vars
    /\ [](\A r \in Requests :
             (req[r].exists /\ req[r].pc # "idle") =>
                req[r].userData.phone = req[r].phone)

====
